---- MODULE Spec2Model ----
(***************************************************************************)
(* Session persistence and chat-history lifecycle of the image-csv-chatbot *)
(* (src/src/services/persistence_service.py, chat_history.py and           *)
(* src/src/models/message.py).                                             *)
(*                                                                         *)
(* Time is the reading of datetime.now(); one unit of `now' is one day, so *)
(* that the 7-day retention window is reachable: a run starts 8 days after *)
(* clock reading 0 and finds the files that runs at readings 0 and 1 left. *)
(* Two calls can read the same value of the clock.  strftime and           *)
(* isoformat() give fixed-field text whose string order is the order of    *)
(* the readings, so an id and a created_at are kept as the reading they    *)
(* are printed from.                                                       *)
(***************************************************************************)
EXTENDS Integers, Sequences, FiniteSets, TLC

VARIABLES
    now,         \* reading of the wall clock, datetime.now()
    dirExists,   \* the directory SESSIONS_DIR exists
    files,       \* session id -> content of chat_sessions/<id>.json
    messages,    \* st.session_state["messages"], or absent
    session_id,  \* st.session_state["session_id"], or absent
    raised,      \* an exception escaped the last operation to its caller
    lastOp,      \* the last operation run and what it logged
    issued,      \* ids returned by generate_session_id() in this process
    arg,         \* arguments of the last direct Session Store call
    ret,         \* value returned by the last direct Session Store call
    turn,        \* the chat turn in progress: ResponseHandler's position
    peer         \* st.session_state of a second browser session

vars == <<now, dirExists, files, messages, session_id, raised, lastOp,
          issued, arg, ret, turn,
          peer>>

\* ------------------------------------------------------------------ bounds
MaxClock == 9
MaxBlobLen == 4
MaxMsgs == 2
MaxIssued == 3
MaxFrags == 2
MaxChat == 4
MaxCalls == 3

\* ------------------------------------------------------- program constants
MAX_SESSION_AGE_DAYS == 7

\* ------------------------------------------------------------ Python values
PyNone == [t |-> "None", v |-> <<>>]
PyBytes(b) == [t |-> "bytes", v |-> b]
PyStr(s) == [t |-> "str", v |-> s]
PyList(l) == [t |-> "list", v |-> l]

\* bool(x) of None, bytes, str or list
Truthy(x) == x.t # "None" /\ x.v # <<>>

\* st.session_state without the key
Absent == [t |-> "absent", v |-> <<>>]
AbsentId == -1

\* ------------------------------------------------------------------ base64
\* A character of the base64 text is its index in the alphabet; Pad is "=".
Pad == 64

RECURSIVE b64encode(_)
b64encode(b) ==
    IF Len(b) = 0 THEN <<>>
    ELSE IF Len(b) = 1 THEN
        LET n == b[1] * 65536
        IN  <<n \div 262144, (n \div 4096) % 64, Pad, Pad>>
    ELSE IF Len(b) = 2 THEN
        LET n == b[1] * 65536 + b[2] * 256
        IN  <<n \div 262144, (n \div 4096) % 64, (n \div 64) % 64, Pad>>
    ELSE
        LET n == b[1] * 65536 + b[2] * 256 + b[3]
        IN  <<n \div 262144, (n \div 4096) % 64, (n \div 64) % 64, n % 64>>
            \o b64encode(SubSeq(b, 4, Len(b)))

Sextet(c) == IF c = Pad THEN 0 ELSE c

\* binascii.Error: the text is not whole padded groups of four
B64Valid(s) ==
    /\ Len(s) % 4 = 0
    /\ \A i \in 1..Len(s) : s[i] = Pad =>
          /\ i > Len(s) - 2
          /\ \A j \in i..Len(s) : s[j] = Pad

RECURSIVE b64decode(_)
b64decode(s) ==
    IF Len(s) < 4 THEN <<>>
    ELSE
        LET n == Sextet(s[1]) * 262144 + Sextet(s[2]) * 4096
                 + Sextet(s[3]) * 64 + Sextet(s[4])
            b1 == n \div 65536
            b2 == (n \div 256) % 256
            b3 == n % 256
            grp == IF s[3] = Pad THEN <<b1>>
                   ELSE IF s[4] = Pad THEN <<b1, b2>>
                   ELSE <<b1, b2, b3>>
        IN  grp \o b64decode(SubSeq(s, 5, Len(s)))

\* ----------------------------------------------------------------- message
\* strftime("%Y-%m-%d %H:%M:%S") of a clock reading
Timestamp(t) == t

\* ChatMessage(role, content, plots = plots or [], image).to_dict(), the
\* message being constructed without a timestamp
to_dict(role, content, plots, image, t) ==
    [role      |-> role,
     content   |-> content,
     timestamp |-> Timestamp(t),
     plots     |-> plots,
     image     |-> image]

\* ----------------------------------------------------------- Session Store
\* content of a file that json.load cannot parse (a truncated write)
Garbage == [parse |-> FALSE, data |-> [k \in {} |-> 0], mtime |-> 0]
GarbageAt(t) == [Garbage EXCEPT !.mtime = t]

\* save_session, lines 59-74: the copy of one message with blobs encoded
EncodeMsg(m) ==
    [k \in DOMAIN m |->
        IF k = "plots" /\ m[k] # <<>>
        THEN [i \in 1..Len(m[k]) |-> PyStr(b64encode(m[k][i].v))]
        ELSE IF k = "image" /\ Truthy(m[k])
        THEN PyStr(b64encode(m[k].v))
        ELSE m[k]]

\* json.dump raises TypeError on a value of type bytes
JsonSerializable(m) ==
    /\ "image" \in DOMAIN m => m.image.t # "bytes"
    /\ "plots" \in DOMAIN m =>
          \A i \in 1..Len(m.plots) : m.plots[i].t # "bytes"

\* save_session(id, msgs) at clock reading t.  fault is the storage fault
\* met: "none", "open" (open() raises) or "write" (the write raises after
\* open() truncated the file).  Gives <<files after, return value>>.
save_session(fs, dir, id, msgs, t, fault) ==
    LET ser == [i \in 1..Len(msgs) |-> EncodeMsg(msgs[i])]
        data == [session_id    |-> id,
                 created_at    |-> t,
                 message_count |-> Len(msgs),
                 messages      |-> ser]
        with(f) == [k \in DOMAIN fs \cup {id} |-> IF k = id THEN f ELSE fs[k]]
    IN  IF ~dir \/ fault = "open" THEN <<fs, FALSE>>
        ELSE IF fault = "write" \/ \E i \in 1..Len(ser) : ~JsonSerializable(ser[i])
        THEN <<with(GarbageAt(t)), FALSE>>
        ELSE <<with([parse |-> TRUE, data |-> data, mtime |-> t]), TRUE>>

\* load_session, lines 118-128: one message with blobs decoded
DecodeMsg(m) ==
    [k \in DOMAIN m |->
        IF k = "plots" /\ m[k] # <<>>
        THEN [i \in 1..Len(m[k]) |-> PyBytes(b64decode(m[k][i].v))]
        ELSE IF k = "image" /\ Truthy(m[k])
        THEN PyBytes(b64decode(m[k].v))
        ELSE m[k]]

\* b64decode raises on one of the blobs of the message
DecodeRaises(m) ==
    \/ "plots" \in DOMAIN m /\ \E i \in 1..Len(m.plots) : ~B64Valid(m.plots[i].v)
    \/ "image" \in DOMAIN m /\ Truthy(m.image) /\ ~B64Valid(m.image.v)

\* load_session(id): the list of messages, or None.  fault is "none" or
\* "read" (open() or read raises).
load_session(fs, dir, id, fault) ==
    IF ~dir \/ id \notin DOMAIN fs THEN PyNone
    ELSE IF fault = "read" \/ ~fs[id].parse THEN PyNone
    ELSE LET d == fs[id].data
             ms == IF "messages" \in DOMAIN d THEN d.messages ELSE <<>>
         IN  IF \E i \in 1..Len(ms) : DecodeRaises(ms[i]) THEN PyNone
             ELSE PyList([i \in 1..Len(ms) |-> DecodeMsg(ms[i])])

\* delete_session removing every session file of the directory
delete_session_all(fs, dir, id, fault) ==
    IF dir /\ id \in DOMAIN fs /\ fault = "none"
    THEN <<[k \in {} |-> fs[k]], TRUE>>
    ELSE <<fs, FALSE>>

\* delete_session(id): <<files after, return value>>; fault is "none" or
\* "remove" (os.remove raises)
delete_session(fs, dir, id, fault) ==
    IF dir /\ id \in DOMAIN fs /\ fault = "none"
    THEN <<[k \in DOMAIN fs \ {id} |-> fs[k]], TRUE>>
    ELSE <<fs, FALSE>>

\* files whose modification time is before the cutoff, lines 170-182
cutoff_date(t) == t - MAX_SESSION_AGE_DAYS
\* the comparison with <= in place of <
StaleInclusive(fs, t) == {k \in DOMAIN fs : fs[k].mtime <= cutoff_date(t)}
Stale(fs, t) == {k \in DOMAIN fs : fs[k].mtime < cutoff_date(t)}

\* _cleanup_old_sessions(): the stores it can leave.  Without a fault every
\* stale file is removed.  With fault = "file" os.path.getmtime or os.remove
\* raises on some file f; the exception leaves the loop, so only the stale
\* files that os.listdir gave before f are removed.
_cleanup_old_sessions(fs, dir, t, fault) ==
    LET without(R) == [k \in DOMAIN fs \ R |-> fs[k]]
    IN  IF ~dir \/ DOMAIN fs = {} THEN {fs}
        ELSE IF fault = "none" THEN {without(Stale(fs, t))}
        ELSE {without(R) : R \in UNION {SUBSET (Stale(fs, t) \ {f}) : f \in DOMAIN fs}}

\* a value of 'created_at' in a listing: text, or None when the file has none
PyTime(t) == [t |-> "str", v |-> t]
NoneTime == [t |-> "None", v |-> 0]

\* list_sessions, lines 216-220: the entry of one parsed file
Entry(fs, k) ==
    LET d == fs[k].data
    IN  [session_id    |-> IF "session_id" \in DOMAIN d THEN d.session_id ELSE k,
         created_at    |-> IF "created_at" \in DOMAIN d THEN PyTime(d.created_at)
                           ELSE NoneTime,
         message_count |-> IF "message_count" \in DOMAIN d THEN d.message_count
                           ELSE 0]

\* the orders in which os.listdir can give the files of K
Orders(K) ==
    {p \in [1..Cardinality(K) -> K] : \A i, j \in 1..Cardinality(K) : p[i] = p[j] => i = j}

\* sessions.sort(key = created_at, reverse = True) on a listing l: the stable
\* sort keeps the listdir order among equal keys, so every non-increasing
\* order of l's entries is a result.  Comparing None with anything raises
\* TypeError, which the outer except swallows with the listing left as the
\* interrupted sort left it.
SortRaises(l) == Len(l) >= 2 /\ \E i \in 1..Len(l) : l[i].created_at.t = "None"
\* the sort without reverse = True
NonDecreasing(l) ==
    \A i, j \in 1..Len(l) : i < j => l[i].created_at.v <= l[j].created_at.v
NonIncreasing(l) ==
    \A i, j \in 1..Len(l) : i < j => l[i].created_at.v >= l[j].created_at.v

\* list_sessions() without the inner try: an unparseable file is listed by
\* its file name
list_sessions_unguarded(fs, dir, unread) ==
    IF ~dir THEN {<<>>}
    ELSE LET K == DOMAIN fs \ unread
             ls == {[i \in 1..Cardinality(K) |-> Entry(fs, p[i])] : p \in Orders(K)}
         IN  {l \in ls : SortRaises(l) \/ NonIncreasing(l)}

\* list_sessions(): the listings it can return.  unread is the set of files
\* whose open() or read raises; they are skipped like the unparseable ones.
list_sessions(fs, dir, unread) ==
    IF ~dir THEN {<<>>}
    ELSE LET K == {k \in DOMAIN fs : fs[k].parse /\ k \notin unread}
             ls == {[i \in 1..Cardinality(K) |-> Entry(fs, p[i])] : p \in Orders(K)}
         IN  {l \in ls : SortRaises(l) \/ NonIncreasing(l)}

\* generate_session_id(): strftime("%Y%m%d_%H%M%S_%f") of the clock reading
generate_session_id(t) == t

\* ---------------------------------------------------------- initial stores
\* what a run of the application can find in SESSIONS_DIR: no directory, an
\* empty one, or files left by earlier runs at clock readings 0 and 1
OldMsg == to_dict("user", "old", <<>>, PyNone, 1)
NoFiles == [k \in {} |-> Garbage]
OldSession == save_session(NoFiles, TRUE, 1, <<OldMsg>>, 1, "none")[1]
OldEmpty == save_session(NoFiles, TRUE, 1, <<>>, 1, "none")[1]
\* the same session with no 'created_at' in the file
OldNoCreated ==
    [k \in {1} |->
        [OldSession[1] EXCEPT !.data =
            [f \in DOMAIN OldSession[1].data \ {"created_at"} |-> OldSession[1].data[f]]]]
\* the same session, its message record without 'role'
OldNoRole ==
    [k \in {1} |->
        [OldSession[1] EXCEPT !.data.messages =
            <<[f \in DOMAIN OldMsg \ {"role"} |-> OldMsg[f]]>>]]
\* two sessions, the one saved at reading 1 being the newer
OlderMsg == to_dict("user", "older", <<>>, PyNone, 0)
TwoSessions == save_session(OldSession, TRUE, 0, <<OlderMsg>>, 0, "none")[1]
\* a session next to a file that a failed write left truncated
WithCorrupt == [k \in {0, 1} |-> IF k = 0 THEN GarbageAt(1) ELSE OldSession[1]]
InitStores == {NoFiles, TwoSessions, OldEmpty, OldNoRole, WithCorrupt}

\* ------------------------------------------------------------------ inputs
Blob1 == PyBytes(<<77>>)
EmptyBlob == PyBytes(<<>>)
\* (role, content, plots, image) given to add_message
AddInputs ==
    {<<"user", "pic", <<>>, Blob1>>,
     <<"assistant", "plot", <<Blob1>>, PyNone>>}

Op(op, log, ok) == [op |-> op, log |-> log, ok |-> ok]

\* the second browser session has not run the application
NoPeer == [messages |-> Absent, session_id |-> AbsentId]

\* no request has reached the upstream client
NoRequest == [history |-> <<>>, prompt |-> "", file |-> FALSE]
\* no chat turn is in progress
Idle ==
    [pc |-> "idle", prompt |-> "", chunks |-> 0, error |-> "",
     shown |-> "", request |-> NoRequest]

Init ==
    /\ now = MAX_SESSION_AGE_DAYS + 1
    /\ \E d \in BOOLEAN, fs \in InitStores :
          /\ (~d => fs = NoFiles)
          /\ dirExists = d
          /\ files = fs
    /\ messages = Absent
    /\ session_id = AbsentId
    /\ raised = FALSE
    /\ lastOp = Op("start", "", TRUE)
    /\ issued = <<>>
    /\ arg = PyNone
    /\ ret = PyNone
    /\ turn = Idle
    /\ peer = NoPeer

\* time passes
Tick ==
    /\ now < MaxClock
    /\ now' = now + 1
    /\ UNCHANGED <<peer, turn, dirExists, files, messages, session_id, raised, lastOp,
                   issued, arg, ret>>

\* a page refresh: the next run starts on an empty st.session_state
NewSessionState ==
    /\ messages # Absent
    /\ messages' = Absent
    /\ session_id' = AbsentId
    /\ raised' = FALSE
    /\ lastOp' = Op("refresh", "", TRUE)
    /\ UNCHANGED <<peer, turn, now, dirExists, files, issued, arg, ret>>

\* initialize() resuming from the store on every call, without the test of
\* SESSION_KEY
InitializeAlwaysFresh(mk, cl, unread, ld) ==
    /\ IF ~dirExists /\ mk
       THEN /\ raised' = TRUE
            /\ lastOp' = Op("initialize", "raised", FALSE)
            /\ UNCHANGED <<dirExists, files, messages, session_id>>
       ELSE \E fs1 \in _cleanup_old_sessions(files, TRUE, now, cl) :
            \E sessions \in list_sessions(fs1, TRUE, unread) :
               LET fresh == TRUE
                   sid == sessions[1].session_id
                   loaded == IF fresh /\ sessions # <<>>
                             THEN load_session(fs1, TRUE, sid, ld) ELSE PyNone
                   restore == fresh /\ sessions # <<>> /\ Truthy(loaded)
                   create == fresh /\ ~restore
                   ensure == ~fresh /\ session_id = AbsentId
               IN  /\ dirExists' = TRUE
                   /\ files' = fs1
                   /\ messages' = IF restore THEN loaded
                                  ELSE IF create THEN PyList(<<>>)
                                  ELSE messages
                   /\ session_id' = IF restore THEN sid
                                    ELSE IF create \/ ensure THEN generate_session_id(now)
                                    ELSE session_id
                   /\ raised' = FALSE
                   /\ lastOp' = Op("initialize",
                                   IF restore THEN "restored"
                                   ELSE IF create /\ sessions # <<>> THEN "load failed, new"
                                   ELSE IF create THEN "no sessions, new"
                                   ELSE IF ensure THEN "id" ELSE "", TRUE)
    /\ UNCHANGED <<peer, turn, now, issued, arg, ret>>

\* initialize() resuming from the store before the retention cleanup runs
InitializeResumeFirst(mk, cl, unread, ld) ==
    /\ IF ~dirExists /\ mk
       THEN /\ raised' = TRUE
            /\ lastOp' = Op("initialize", "raised", FALSE)
            /\ UNCHANGED <<dirExists, files, messages, session_id>>
       ELSE \E fs1 \in _cleanup_old_sessions(files, TRUE, now, cl) :
            \E sessions \in list_sessions(files, TRUE, unread) :
               LET fresh == messages = Absent
                   sid == sessions[1].session_id
                   loaded == IF fresh /\ sessions # <<>>
                             THEN load_session(files, TRUE, sid, ld) ELSE PyNone
                   restore == fresh /\ sessions # <<>> /\ Truthy(loaded)
                   create == fresh /\ ~restore
                   ensure == ~fresh /\ session_id = AbsentId
               IN  /\ dirExists' = TRUE
                   /\ files' = fs1
                   /\ messages' = IF restore THEN loaded
                                  ELSE IF create THEN PyList(<<>>)
                                  ELSE messages
                   /\ session_id' = IF restore THEN sid
                                    ELSE IF create \/ ensure THEN generate_session_id(now)
                                    ELSE session_id
                   /\ raised' = FALSE
                   /\ lastOp' = Op("initialize",
                                   IF restore THEN "restored"
                                   ELSE IF create /\ sessions # <<>> THEN "load failed, new"
                                   ELSE IF create THEN "no sessions, new"
                                   ELSE IF ensure THEN "id" ELSE "", TRUE)
    /\ UNCHANGED <<peer, turn, now, issued, arg, ret>>

\* ChatHistoryManager.initialize().  mk: os.makedirs raises (the directory
\* cannot be created); cl: fault of the cleanup; unread: files that
\* list_sessions cannot read; ld: fault of load_session.
Initialize(mk, cl, unread, ld) ==
    /\ IF ~dirExists /\ mk
       THEN /\ raised' = TRUE
            /\ lastOp' = Op("initialize", "raised", FALSE)
            /\ UNCHANGED <<dirExists, files, messages, session_id>>
       ELSE \E fs1 \in _cleanup_old_sessions(files, TRUE, now, cl) :
            \E sessions \in list_sessions(fs1, TRUE, unread) :
               LET fresh == messages = Absent
                   sid == sessions[1].session_id
                   loaded == IF fresh /\ sessions # <<>>
                             THEN load_session(fs1, TRUE, sid, ld) ELSE PyNone
                   restore == fresh /\ sessions # <<>> /\ Truthy(loaded)
                   create == fresh /\ ~restore
                   ensure == ~fresh /\ session_id = AbsentId
               IN  /\ dirExists' = TRUE
                   /\ files' = fs1
                   /\ messages' = IF restore THEN loaded
                                  ELSE IF create THEN PyList(<<>>)
                                  ELSE messages
                   /\ session_id' = IF restore THEN sid
                                    ELSE IF create \/ ensure THEN generate_session_id(now)
                                    ELSE session_id
                   /\ raised' = FALSE
                   /\ lastOp' = Op("initialize",
                                   IF restore THEN "restored"
                                   ELSE IF create /\ sessions # <<>> THEN "load failed, new"
                                   ELSE IF create THEN "no sessions, new"
                                   ELSE IF ensure THEN "id" ELSE "", TRUE)
    /\ UNCHANGED <<peer, turn, now, issued, arg, ret>>

\* add_message undoing the append when the save fails
AddMessageRollback(in, fault) ==
    /\ messages # Absent
    /\ Len(messages.v) < MaxMsgs
    /\ LET message == to_dict(in[1], in[2], in[3], in[4], now)
           new == Append(messages.v, message)
           save == session_id # AbsentId /\ new # <<>>
           r == IF save
                THEN save_session(files, dirExists, session_id, new, now, fault)
                ELSE <<files, FALSE>>
       IN  /\ messages' = IF r[2] THEN PyList(new) ELSE messages
           /\ files' = r[1]
           /\ lastOp' = Op("add_message", IF save THEN "save" ELSE "", r[2])
    /\ raised' = FALSE
    /\ UNCHANGED <<peer, turn, now, dirExists, session_id, issued, arg, ret>>

\* ChatHistoryManager.add_message(role, content, plots, image) on an
\* initialized manager; fault is the fault met by save_session
add_message(in, fault) ==
    /\ messages # Absent
    /\ LET message == to_dict(in[1], in[2], in[3], in[4], now)
           new == Append(messages.v, message)
           save == session_id # AbsentId /\ new # <<>>
           r == IF save
                THEN save_session(files, dirExists, session_id, new, now, fault)
                ELSE <<files, FALSE>>
       IN  /\ messages' = PyList(new)
           /\ files' = r[1]
           /\ lastOp' = Op("add_message", IF save THEN "save" ELSE "", r[2])
    /\ raised' = FALSE

\* add_message reading the stored session again before it appends
AddMessageReload(in, fault) ==
    /\ messages # Absent
    /\ Len(messages.v) < MaxMsgs
    /\ LET stored == load_session(files, dirExists, session_id, "none")
           base == IF Truthy(stored) THEN stored.v ELSE messages.v
           new == Append(base, to_dict(in[1], in[2], in[3], in[4], now))
           r == save_session(files, dirExists, session_id, new, now, fault)
       IN  /\ messages' = PyList(new)
           /\ files' = r[1]
           /\ lastOp' = Op("add_message", "save", r[2])
    /\ raised' = FALSE
    /\ UNCHANGED <<peer, turn, now, dirExists, session_id, issued, arg, ret>>

\* add_message inserting the new message at the head of the list
AddMessageFirst(in, fault) ==
    /\ messages # Absent
    /\ Len(messages.v) < MaxMsgs
    /\ LET new == <<to_dict(in[1], in[2], in[3], in[4], now)>> \o messages.v
           save == session_id # AbsentId
           r == IF save
                THEN save_session(files, dirExists, session_id, new, now, fault)
                ELSE <<files, FALSE>>
       IN  /\ messages' = PyList(new)
           /\ files' = r[1]
           /\ lastOp' = Op("add_message", IF save THEN "save" ELSE "", r[2])
    /\ raised' = FALSE
    /\ UNCHANGED <<peer, turn, now, dirExists, session_id, issued, arg, ret>>

\* a call of add_message outside a chat turn
AddMessage(in, fault) ==
    /\ Len(messages.v) < MaxMsgs
    /\ add_message(in, fault)
    /\ UNCHANGED <<peer, turn, now, dirExists, session_id, issued, arg, ret>>

\* clear() saving the emptied session under the new id
ClearSavesEmpty(fault) ==
    /\ messages # Absent
    /\ LET r == IF session_id # AbsentId
                THEN delete_session(files, dirExists, session_id, fault)
                ELSE <<files, FALSE>>
       IN  /\ files' = save_session(r[1], dirExists, generate_session_id(now),
                                    <<>>, now, "none")[1]
           /\ lastOp' = Op("clear", "", r[2])
    /\ messages' = PyList(<<>>)
    /\ session_id' = generate_session_id(now)
    /\ raised' = FALSE
    /\ UNCHANGED <<peer, turn, now, dirExists, issued, arg, ret>>

\* ChatHistoryManager.clear(), which the application calls after
\* initialize(); fault is the fault met by delete_session
Clear(fault) ==
    /\ messages # Absent
    /\ LET r == IF session_id # AbsentId
                THEN delete_session(files, dirExists, session_id, fault)
                ELSE <<files, FALSE>>
       IN  /\ files' = r[1]
           /\ lastOp' = Op("clear", "", r[2])
    /\ messages' = PyList(<<>>)
    /\ session_id' = generate_session_id(now)
    /\ raised' = FALSE
    /\ UNCHANGED <<peer, turn, now, dirExists, issued, arg, ret>>

\* every operation, with the storage faults the environment can raise (one
\* fault at most in a run of initialize)
Next ==
    \/ Tick
    \/ NewSessionState
    \/ Initialize(FALSE, "none", {}, "none")
    \/ Initialize(TRUE, "none", {}, "none")
    \/ Initialize(FALSE, "file", {}, "none")
    \/ \E k \in DOMAIN files : Initialize(FALSE, "none", {k}, "none")
    \/ Initialize(FALSE, "none", {}, "read")
    \/ \E in \in AddInputs, fault \in {"none", "open", "write"} :
          AddMessage(in, fault)
    \/ \E fault \in {"none", "remove"} : Clear(fault)

Spec == Init /\ [][Next]_vars

\* the same operations on a working store: no storage fault is raised
NextWorking ==
    \/ Tick
    \/ NewSessionState
    \/ Initialize(FALSE, "none", {}, "none")
    \/ \E in \in AddInputs : AddMessage(in, "none")
    \/ Clear("none")

SpecWorking == Init /\ [][NextWorking]_vars

\* a working store but for the writes of save_session, which can fail
NextSaveFault ==
    \/ Tick
    \/ NewSessionState
    \/ Initialize(FALSE, "none", {}, "none")
    \/ \E in \in AddInputs, fault \in {"none", "open", "write"} :
          AddMessage(in, fault)
    \/ Clear("none")

SpecSaveFault == Init /\ [][NextSaveFault]_vars

\* ------------------------------------------- direct calls of the store
\* blobs of every length up to MaxBlobLen: each padding of base64 occurs
Byte(i) == (77 * i * i + 178) % 256
Blobs == {[i \in 1..n |-> Byte(i)] : n \in 0..MaxBlobLen}
\* message records given to save_session
RecordOf(plots, image) ==
    [role |-> "user", content |-> "hi", timestamp |-> Timestamp(1),
     plots |-> plots, image |-> image]
Records ==
    {RecordOf(<<>>, PyNone)}
    \cup {RecordOf(<<>>, PyBytes(b)) : b \in Blobs}
    \cup {RecordOf(<<PyBytes(b)>>, PyNone) : b \in Blobs}
    \cup {RecordOf(<<PyBytes(b), PyBytes(<<>>)>>, PyBytes(b)) : b \in Blobs}
RecordLists == {<<>>} \cup {<<r>> : r \in Records}
                \cup {<<r, RecordOf(<<>>, PyNone)>> : r \in Records}
                \cup {<<RecordOf(<<>>, PyNone), r>> : r \in Records}

\* the caller's save_session(id, messages) and load_session(id), the
\* arguments drawn at the start
InitRT ==
    /\ now = MAX_SESSION_AGE_DAYS + 1
    /\ dirExists = TRUE
    /\ files \in {NoFiles, OldSession}
    /\ messages = Absent
    /\ session_id = AbsentId
    /\ raised = FALSE
    /\ lastOp = Op("start", "", TRUE)
    /\ issued = <<>>
    /\ arg \in [id : {1, 2}, messages : RecordLists]
    /\ ret = PyNone
    /\ turn = Idle
    /\ peer = NoPeer

RTSave ==
    /\ lastOp.op = "start"
    /\ LET r == save_session(files, dirExists, arg.id, arg.messages, now, "none")
       IN  /\ files' = r[1]
           /\ lastOp' = Op("save_session", "", r[2])
    /\ UNCHANGED <<peer, turn, now, dirExists, messages, session_id, raised, issued, arg, ret>>

RTLoad ==
    /\ lastOp.op = "save_session"
    /\ ret' = load_session(files, dirExists, arg.id, "none")
    /\ lastOp' = Op("load_session", "", TRUE)
    /\ UNCHANGED <<peer, turn, now, dirExists, files, messages, session_id, raised, issued, arg>>

NextRT == Tick \/ RTSave \/ RTLoad

SpecRT == InitRT /\ [][NextRT]_vars

\* C1: save_session(id, messages) followed by load_session(id) returns a
\* list of the same length and order whose records equal the originals in
\* role, content, timestamp, plots and image.
RoundTrip == lastOp.op = "load_session" => ret = PyList(arg.messages)

\* save_session and list_sessions called in any order on a store that can
\* hold a session file with no 'created_at'
InitList ==
    /\ now = MAX_SESSION_AGE_DAYS + 1
    /\ dirExists = TRUE
    /\ files \in {NoFiles, OldNoCreated}
    /\ messages = Absent
    /\ session_id = AbsentId
    /\ raised = FALSE
    /\ lastOp = Op("start", "", TRUE)
    /\ issued = <<>>
    /\ arg = PyNone
    /\ ret = PyNone
    /\ turn = Idle
    /\ peer = NoPeer

StoreSave(id) ==
    /\ LET r == save_session(files, dirExists, id, <<OldMsg>>, now, "none")
       IN  /\ files' = r[1]
           /\ lastOp' = Op("save_session", "", r[2])
    /\ UNCHANGED <<peer, turn, now, dirExists, messages, session_id, raised, issued, arg, ret>>

StoreList ==
    /\ \E l \in list_sessions(files, dirExists, {}) : ret' = PyList(l)
    /\ lastOp' = Op("list_sessions", "", TRUE)
    /\ UNCHANGED <<peer, turn, now, dirExists, files, messages, session_id, raised, issued, arg>>

NextList == Tick \/ (\E id \in {2, 3} : StoreSave(id)) \/ StoreList

SpecList == InitList /\ [][NextList]_vars

\* C5: list_sessions() returns its entries sorted by created_at descending,
\* also when a listed file has no created_at: the entries that have one are
\* in descending order.
ListSorted ==
    lastOp.op = "list_sessions" =>
        \A i, j \in 1..Len(ret.v) :
            (i < j /\ ret.v[i].created_at.t = "str" /\ ret.v[j].created_at.t = "str")
                => ret.v[i].created_at.v >= ret.v[j].created_at.v

\* successive calls of generate_session_id() in one process
InitIds ==
    /\ now = 0
    /\ dirExists = FALSE
    /\ files = NoFiles
    /\ messages = Absent
    /\ session_id = AbsentId
    /\ raised = FALSE
    /\ lastOp = Op("start", "", TRUE)
    /\ issued = <<>>
    /\ arg = PyNone
    /\ ret = PyNone
    /\ turn = Idle
    /\ peer = NoPeer

GenerateSessionId ==
    /\ Len(issued) < MaxIssued
    /\ issued' = Append(issued, generate_session_id(now))
    /\ lastOp' = Op("generate_session_id", "", TRUE)
    /\ UNCHANGED <<peer, turn, now, dirExists, files, messages, session_id, raised, arg, ret>>

NextIds == Tick \/ GenerateSessionId

SpecIds == InitIds /\ [][NextIds]_vars

\* C10: generate_session_id() returns an identifier different from every
\* identifier an earlier call in the same process returned.
IdsUnique ==
    \A i, j \in 1..Len(issued) : i # j => issued[i] # issued[j]

\* ------------------------------------------------- History Manager claims
\* the files that json.load parses
Parsed(fs) == {k \in DOMAIN fs : fs[k].parse}
\* the parsed files that no other parsed file is newer than
Newest(fs) ==
    {b \in Parsed(fs) :
        \A a \in Parsed(fs) : fs[a].data.created_at <= fs[b].data.created_at}
\* the store holds two sessions A and B, B the newer and with messages
HoldsOlderAndNewer(fs, b) ==
    /\ b \in Parsed(fs)
    /\ fs[b].data.messages # <<>>
    /\ Parsed(fs) # {b}
    /\ \A a \in Parsed(fs) \ {b} : fs[a].data.created_at < fs[b].data.created_at

\* C2: whenever the in-memory sequence is non-empty, the record stored
\* under the active session id loads to exactly the in-memory sequence.
FlushedToStore ==
    (messages # Absent /\ messages.v # <<>>)
        => load_session(files, dirExists, session_id, "none") = messages

\* C3 as stated: initialize() on a state with no active session, the store
\* holding sessions A and B with B the newer and non-empty, adopts B's id
\* and B's loaded messages.
ResumesNewest ==
    [][\A b \in DOMAIN files :
          (/\ messages = Absent
           /\ HoldsOlderAndNewer(files, b)
           /\ Initialize(FALSE, "none", {}, "none"))
          => /\ session_id' = b
             /\ messages' = load_session(files, dirExists, b, "none")]_vars

\* C3 amended: the same when B's file is not older than the retention
\* window at the time of initialize().
ResumesNewestInWindow ==
    [][\A b \in DOMAIN files :
          (/\ messages = Absent
           /\ HoldsOlderAndNewer(files, b)
           /\ b \notin Stale(files, now)
           /\ Initialize(FALSE, "none", {}, "none"))
          => /\ session_id' = b
             /\ messages' = load_session(files, dirExists, b, "none")]_vars

\* initialize() has just resumed the newer of two sessions of the store
ResumedNewerOfTwo ==
    /\ lastOp = Op("initialize", "restored", TRUE)
    /\ HoldsOlderAndNewer(files, session_id)
    /\ messages = load_session(files, dirExists, session_id, "none")

\* C4: when the store is empty, or load_session of the newest listed session
\* returns None or an empty list, initialize() ends with an empty in-memory
\* sequence and an active id that is the id of no file of the store.
FreshFallback ==
    (/\ lastOp.op = "initialize"
     /\ \/ lastOp.log = "load failed, new"
        \/ lastOp.log = "no sessions, new" /\ files = NoFiles)
    => /\ messages = PyList(<<>>)
       /\ session_id # AbsentId
       /\ session_id \notin DOMAIN files

\* C6: if the write of add_message fails, add_message returns normally and
\* the in-memory sequence is the previous one with the new message appended.
AppendSurvivesFailure ==
    [][\A in \in AddInputs, fault \in {"none", "open", "write"} :
          (AddMessage(in, fault) /\ ~lastOp'.ok)
          => /\ ~raised'
             /\ messages' =
                  PyList(Append(messages.v, to_dict(in[1], in[2], in[3], in[4], now)))]_vars

\* add_message has returned after a failed save: the message is in memory and
\* not in the store
AppendedUnsaved ==
    /\ lastOp = Op("add_message", "save", FALSE)
    /\ ~raised
    /\ messages.v # <<>>
    /\ load_session(files, dirExists, session_id, "none") # messages

\* C7: no storage fault escapes initialize, add_message or clear: each
\* returns normally and leaves a usable active session.
NoFaultEscapes ==
    lastOp.op \in {"initialize", "add_message", "clear"}
        => /\ ~raised
           /\ messages # Absent
           /\ session_id # AbsentId

Malformed(f) ==
    /\ f.parse
    /\ \E i \in 1..Len(f.data.messages) :
          ~({"role", "content"} \subseteq DOMAIN f.data.messages[i])

\* C9: a session file with a message record lacking role or content is
\* treated as malformed: load_session returns None for it, list_sessions
\* omits it, and no such record is adopted into the in-memory sequence.
MalformedRejected ==
    lastOp.op = "initialize" =>
        /\ \A k \in DOMAIN files : Malformed(files[k]) =>
              /\ load_session(files, dirExists, k, "none") = PyNone
              /\ \A l \in list_sessions(files, dirExists, {}) :
                    \A i \in 1..Len(l) : l[i].session_id # k
        /\ messages # Absent =>
              \A i \in 1..Len(messages.v) :
                  {"role", "content"} \subseteq DOMAIN messages.v[i]

\* --------------------------------------------------- retention cleanup
\* _cleanup_old_sessions() called directly on stores that hold files of
\* several ages; arg keeps the store the last call found
InitCleanup ==
    /\ now = MAX_SESSION_AGE_DAYS + 1
    /\ dirExists = TRUE
    /\ files \in {NoFiles, OldSession, TwoSessions, WithCorrupt}
    /\ messages = Absent
    /\ session_id = AbsentId
    /\ raised = FALSE
    /\ lastOp = Op("start", "", TRUE)
    /\ issued = <<>>
    /\ arg = [t |-> "store", v |-> NoFiles]
    /\ ret = PyNone
    /\ turn = Idle
    /\ peer = NoPeer

\* fault is "none" or "file": os.path.getmtime or os.remove raises on a file
Cleanup(fault) ==
    /\ fault = "file" => DOMAIN files # {}
    /\ files' \in _cleanup_old_sessions(files, dirExists, now, fault)
    /\ arg' = [t |-> "store", v |-> files]
    /\ lastOp' = Op("_cleanup_old_sessions", fault, fault = "none")
    /\ UNCHANGED <<peer, turn, now, dirExists, messages, session_id, raised, issued, ret>>

NextCleanup ==
    \/ Tick
    \/ \E id \in {2, 3} : StoreSave(id)
    \/ Cleanup("none")
    \/ Cleanup("file")

SpecCleanup == InitCleanup /\ [][NextCleanup]_vars

\* the age of file k of store fs at clock reading t, in days
Age(fs, k, t) == t - fs[k].mtime

\* C11: after _cleanup_old_sessions() runs without faults, every file whose
\* modification time is more than 7 days old is gone and every file within
\* the window is still present with unchanged content.
Retention ==
    [][Cleanup("none") =>
          /\ \A k \in DOMAIN files :
                Age(files, k, now) > MAX_SESSION_AGE_DAYS => k \notin DOMAIN files'
          /\ \A k \in DOMAIN files :
                Age(files, k, now) <= MAX_SESSION_AGE_DAYS =>
                    k \in DOMAIN files' /\ files'[k] = files[k]
          /\ DOMAIN files' \subseteq DOMAIN files]_vars

\* a fault-free cleanup has removed a file older than the window and kept a
\* file exactly 7 days old
RemovedStaleKeptRecent ==
    /\ lastOp = Op("_cleanup_old_sessions", "none", TRUE)
    /\ \E k \in DOMAIN arg.v :
          Age(arg.v, k, now) > MAX_SESSION_AGE_DAYS /\ k \notin DOMAIN files
    /\ \E k \in DOMAIN arg.v :
          /\ Age(arg.v, k, now) = MAX_SESSION_AGE_DAYS
          /\ k \in DOMAIN files
          /\ files[k] = arg.v[k]

\* C12: a failure on one file during cleanup does not abort it: every other
\* stale file of the store is still removed by the same run.
CleanupNotAborted ==
    [][Cleanup("file") =>
          \E f \in DOMAIN files :
              \A k \in DOMAIN files \ {f} :
                  Age(files, k, now) > MAX_SESSION_AGE_DAYS => k \notin DOMAIN files']_vars

\* ------------------------------------------------------------- clear()
\* the files of fs other than the one under id
Others(fs, id) == [k \in DOMAIN fs \ {id} |-> fs[k]]

\* C13: clear() on an active session with the delete succeeding leaves the
\* in-memory sequence empty, an active id different from the previous one
\* and no file under the previous id; an add_message writes under the
\* active id only.
ClearStartsFresh ==
    [][/\ (Clear("none") /\ lastOp'.ok) =>
              /\ messages' = PyList(<<>>)
              /\ session_id' # AbsentId
              /\ session_id' # session_id
              /\ session_id \notin DOMAIN files'
       /\ \A in \in AddInputs :
              AddMessage(in, "none") =>
                  Others(files', session_id) = Others(files, session_id)]_vars

\* C14: clear() on an empty in-memory sequence returns normally, leaves the
\* session files and their contents unchanged, and leaves an empty active
\* session.
ClearOnEmpty ==
    [][\A fault \in {"none", "remove"} :
          (Clear(fault) /\ messages = PyList(<<>>)) =>
              /\ ~raised'
              /\ files' = files
              /\ messages' = PyList(<<>>)
              /\ session_id' # AbsentId]_vars

\* ------------------------------------------------------ history reads
\* the Python slice l[i:]
PySliceFrom(l, i) ==
    LET len == Len(l)
        start == IF i < 0 THEN (IF len + i < 0 THEN 0 ELSE len + i)
                 ELSE (IF i > len THEN len ELSE i)
    IN  SubSeq(l, start + 1, len)

\* ChatHistoryManager.get_messages(): the stored list, [] when there is none
get_messages(ms) == IF ms = Absent THEN <<>> ELSE ms.v

\* ChatHistoryManager.get_last_n_messages(n)
get_last_n_messages(ms, n) ==
    IF n < Len(get_messages(ms)) THEN PySliceFrom(get_messages(ms), -n)
    ELSE get_messages(ms)

GetLastN(n) ==
    /\ ret' = PyList(get_last_n_messages(messages, n))
    /\ arg' = [t |-> "int", v |-> n]
    /\ lastOp' = Op("get_last_n_messages", "", TRUE)
    /\ raised' = FALSE
    /\ UNCHANGED <<peer, turn, now, dirExists, files, messages, session_id, issued>>

\* ChatHistoryManager.get_message_count()
get_message_count(ms) == Len(get_messages(ms))

\* get_messages() storing the default list it returns
GetMessagesSetsDefault ==
    /\ ret' = PyList(get_messages(messages))
    /\ messages' = PyList(get_messages(messages))
    /\ arg' = PyNone
    /\ lastOp' = Op("get_messages", "", TRUE)
    /\ raised' = FALSE
    /\ UNCHANGED <<peer, turn, now, dirExists, files, session_id, issued>>

GetMessages ==
    /\ ret' = PyList(get_messages(messages))
    /\ arg' = PyNone
    /\ lastOp' = Op("get_messages", "", TRUE)
    /\ raised' = FALSE
    /\ UNCHANGED <<peer, turn, now, dirExists, files, messages, session_id, issued>>

GetMessageCount ==
    /\ ret' = [t |-> "int", v |-> get_message_count(messages)]
    /\ arg' = PyNone
    /\ lastOp' = Op("get_message_count", "", TRUE)
    /\ raised' = FALSE
    /\ UNCHANGED <<peer, turn, now, dirExists, files, messages, session_id, issued>>

NextReads ==
    \/ NewSessionState
    \/ Initialize(FALSE, "none", {}, "none")
    \/ \E in \in AddInputs : AddMessage(in, "none")
    \/ Clear("none")
    \/ \E n \in 0..(MaxMsgs + 1) : GetLastN(n)
    \/ GetMessages
    \/ GetMessageCount

\* the reads are called on a store that is empty or holds one session
InitReads ==
    /\ now = MAX_SESSION_AGE_DAYS + 1
    /\ dirExists = TRUE
    /\ files \in {NoFiles, OldSession}
    /\ messages = Absent
    /\ session_id = AbsentId
    /\ raised = FALSE
    /\ lastOp = Op("start", "", TRUE)
    /\ issued = <<>>
    /\ arg = PyNone
    /\ ret = PyNone
    /\ turn = Idle
    /\ peer = NoPeer

SpecReads == InitReads /\ [][NextReads]_vars

\* the last k elements of l, all of l when k is larger than its length
Suffix(l, k) ==
    IF k >= Len(l) THEN l ELSE SubSeq(l, Len(l) - k + 1, Len(l))

\* C15: for every n >= 0, get_last_n_messages(n) returns the suffix of the
\* in-memory sequence of length min(n, length): the empty sequence for
\* n = 0, the whole sequence for n larger than its length.
LastNIsSuffix ==
    lastOp.op = "get_last_n_messages" =>
        ret = PyList(Suffix(get_messages(messages), arg.v))

\* ------------------------------------------------------- the chat turn
\* the Python slice l[:-1]
AllButLast(l) == IF l = <<>> THEN <<>> ELSE SubSeq(l, 1, Len(l) - 1)

\* GeminiChatService._convert_to_gemini_format
_convert_to_gemini_format(ms) ==
    [i \in 1..Len(ms) |->
        [role  |-> IF ms[i].role = "user" THEN "user" ELSE "model",
         parts |-> <<ms[i].content>>]]

\* what get_response_stream and get_response_with_plots hand to the upstream
\* client: with an uploaded file reference and the genai client importable,
\* contents = [uploaded_file_ref, prompt]; otherwise a chat started on
\* history[:-1] and the prompt as its message
UpstreamRequest(prompt, history, file, genai) ==
    IF file /\ genai
    THEN [history |-> <<>>, prompt |-> prompt, file |-> TRUE]
    ELSE [history |-> _convert_to_gemini_format(AllButLast(history)),
          prompt |-> prompt, file |-> FALSE]

\* the texts of the chunks the upstream client streams, and of its errors
Frags == {"", "a"}
Errors == {"quota", "token expired"}
Prompts == {"hi"}

\* get_response_stream, lines 108-112: the exception that reaches the caller
TokenLimitText == "Token limit exceeded"
upstream_error(e) == IF e = "token expired" THEN TokenLimitText ELSE e

\* AppConfig.API_ERROR_TEMPLATE.format(error = e)
API_ERROR_TEMPLATE(e) == "Error: " \o e \o " Please check your API key"

\* the chat flow asking for the response stream before it appends the prompt
SubmitRequestFirst(prompt) ==
    /\ turn.pc = "idle"
    /\ messages # Absent
    /\ Len(messages.v) + 2 <= MaxChat
    /\ add_message(<<"user", prompt, <<>>, PyNone>>, "none")
    /\ turn' = [pc |-> "streaming", prompt |-> prompt, chunks |-> 0,
                error |-> "", shown |-> "",
                request |-> UpstreamRequest(prompt, messages.v, FALSE, FALSE)]
    /\ UNCHANGED <<peer, now, dirExists, session_id, issued, arg, ret>>

\* the user submits a prompt: it is appended to the history, then
\* handle_response() asks the service for the response stream
Submit(prompt) ==
    /\ turn.pc = "idle"
    /\ messages # Absent
    /\ Len(messages.v) + 2 <= MaxChat
    /\ add_message(<<"user", prompt, <<>>, PyNone>>, "none")
    /\ turn' = [pc |-> "streaming", prompt |-> prompt, chunks |-> 0,
                error |-> "", shown |-> "",
                request |-> UpstreamRequest(prompt, messages'.v, FALSE, FALSE)]
    /\ UNCHANGED <<peer, now, dirExists, session_id, issued, arg, ret>>

\* the stream gives a chunk of text f; an empty chunk is not yielded, a
\* yielded one is written to the display
Fragment(f) ==
    /\ turn.pc = "streaming"
    /\ turn.chunks < MaxFrags
    /\ turn' = [turn EXCEPT !.chunks = @ + 1,
                            !.shown = IF f = "" THEN @ ELSE @ \o f]
    /\ UNCHANGED <<peer, now, dirExists, files, messages, session_id, raised, lastOp,
                   issued, arg, ret>>

\* the handler storing the partial text in front of the error text
StreamRaiseKeepsPartial(e, fault) ==
    /\ turn.pc = "streaming"
    /\ LET full_response == turn.shown \o API_ERROR_TEMPLATE(upstream_error(e))
       IN  /\ add_message(<<"assistant", full_response, <<>>, PyNone>>, fault)
           /\ turn' = [turn EXCEPT !.pc = "idle", !.error = full_response]
    /\ UNCHANGED <<peer, now, dirExists, session_id, issued, arg, ret>>

\* the handler letting the exception of the stream through
StreamRaisePropagates(e, fault) ==
    /\ turn.pc = "streaming"
    /\ turn' = [turn EXCEPT !.pc = "idle",
                            !.error = API_ERROR_TEMPLATE(upstream_error(e))]
    /\ raised' = TRUE
    /\ lastOp' = Op("handle_response", "raised", FALSE)
    /\ UNCHANGED <<peer, now, dirExists, files, messages, session_id, issued, arg, ret>>

\* the handler recording the reply under the upstream role name
StreamEndAsModel(fault) ==
    /\ turn.pc = "streaming"
    /\ LET full_response == turn.shown
       IN  add_message(<<"model", full_response, <<>>, PyNone>>, fault)
    /\ turn' = [turn EXCEPT !.pc = "idle"]
    /\ UNCHANGED <<peer, now, dirExists, session_id, issued, arg, ret>>

\* the stream is exhausted: handle_response commits the text shown
StreamEnd(fault) ==
    /\ turn.pc = "streaming"
    /\ LET full_response == turn.shown
       IN  add_message(<<"assistant", full_response, <<>>, PyNone>>, fault)
    /\ turn' = [turn EXCEPT !.pc = "idle"]
    /\ UNCHANGED <<peer, now, dirExists, session_id, issued, arg, ret>>

\* the stream raises e: handle_response commits the error text
StreamRaise(e, fault) ==
    /\ turn.pc = "streaming"
    /\ LET full_response == API_ERROR_TEMPLATE(upstream_error(e))
       IN  /\ add_message(<<"assistant", full_response, <<>>, PyNone>>, fault)
           /\ turn' = [turn EXCEPT !.pc = "idle", !.error = full_response]
    /\ UNCHANGED <<peer, now, dirExists, session_id, issued, arg, ret>>

\* a caller appends the prompt and calls get_response_stream or
\* get_response_with_plots with the history; file: it passes an uploaded
\* file reference; genai: the google.genai client could be imported
ServiceRequest(prompt, file, genai) ==
    /\ turn.pc = "idle"
    /\ messages # Absent
    /\ Len(messages.v) + 1 <= MaxChat
    /\ add_message(<<"user", prompt, <<>>, PyNone>>, "none")
    /\ turn' = [turn EXCEPT !.prompt = prompt,
                            !.request = UpstreamRequest(prompt, messages'.v, file, genai)]
    /\ UNCHANGED <<peer, now, dirExists, session_id, issued, arg, ret>>

InitChat ==
    /\ now = MAX_SESSION_AGE_DAYS + 1
    /\ dirExists = TRUE
    /\ files \in {NoFiles, TwoSessions}
    /\ messages = Absent
    /\ session_id = AbsentId
    /\ raised = FALSE
    /\ lastOp = Op("start", "", TRUE)
    /\ issued = <<>>
    /\ arg = PyNone
    /\ ret = PyNone
    /\ turn = Idle
    /\ peer = NoPeer

NextChat ==
    \/ Tick
    \/ turn.pc = "idle" /\ Initialize(FALSE, "none", {}, "none")
    \/ turn.pc = "idle" /\ Clear("none")
    \/ \E prompt \in Prompts : Submit(prompt)
    \/ \E f \in Frags : Fragment(f)
    \/ \E fault \in {"none", "write"} : StreamEnd(fault)
    \/ \E e \in Errors, fault \in {"none", "write"} : StreamRaise(e, fault)
    \/ \E prompt \in Prompts, file \in BOOLEAN, genai \in BOOLEAN :
          ServiceRequest(prompt, file, genai)

SpecChat == InitChat /\ [][NextChat]_vars

\* the last element of a non-empty sequence
Last(l) == l[Len(l)]
\* a step of handle_response between its call and its return
InTurn == turn.pc = "streaming" /\ turn'.pc = "streaming"
\* the step on which handle_response returns
TurnEnds == turn.pc = "streaming" /\ turn'.pc = "idle"

\* C16: no partial turn is persisted.  While the stream is being consumed
\* neither the history nor the store changes; the assistant message is
\* appended on the step that ends the stream, and when the stream raised
\* after yielding fragments the appended content is not the fragments' text
\* and the stored records before it are unchanged.
NoPartialTurn ==
    [][/\ InTurn => (messages' = messages /\ files' = files)
       /\ (TurnEnds /\ turn'.error # "") =>
              /\ AllButLast(messages'.v) = messages.v
              /\ Last(messages'.v).content = API_ERROR_TEMPLATE(upstream_error("quota"))
                 \/ Last(messages'.v).content = API_ERROR_TEMPLATE(upstream_error("token expired"))
              /\ turn.shown # "" => Last(messages'.v).content # turn.shown
              /\ Others(files', session_id) = Others(files, session_id)
              /\ (session_id \in DOMAIN files' /\ files'[session_id].parse) =>
                    load_session(files', dirExists, session_id, "none")
                        \in {messages, messages'}]_vars

\* a stream has raised after yielding text, and the history ends with the
\* error text
RaisedAfterFragments ==
    /\ turn.pc = "idle"
    /\ turn.error # ""
    /\ turn.shown # ""
    /\ lastOp.op = "add_message"
    /\ messages # Absent /\ messages.v # <<>>
    /\ Last(messages.v).role = "assistant"
    /\ Last(messages.v).content = turn.error

\* C17: every call of handle_response appends exactly one message, of role
\* assistant, and returns normally, whether the upstream call succeeds or
\* raises; when it raises, the content is the error text built from the
\* error.
OneAssistantMessage ==
    [][/\ InTurn => messages' = messages
       /\ TurnEnds =>
              /\ ~raised'
              /\ Len(messages'.v) = Len(messages.v) + 1
              /\ AllButLast(messages'.v) = messages.v
              /\ Last(messages'.v).role = "assistant"
              /\ \A e \in Errors :
                    StreamRaise(e, "none") \/ StreamRaise(e, "write") =>
                        Last(messages'.v).content = API_ERROR_TEMPLATE(upstream_error(e))
              /\ StreamEnd("none") \/ StreamEnd("write") =>
                        Last(messages'.v).content = turn.shown]_vars

\* handle_response has returned after a stream that ended normally
RepliedAfterStream ==
    /\ turn.pc = "idle"
    /\ turn.error = ""
    /\ turn.chunks > 0
    /\ lastOp.op = "add_message"
    /\ ~raised
    /\ messages # Absent /\ Len(messages.v) >= 2
    /\ Last(messages.v).role = "assistant"
    /\ Last(messages.v).content = turn.shown
    /\ Last(AllButLast(messages.v)).role = "user"

\* C18: every upstream request carries the current prompt together with all
\* prior messages of the history, in order, also when an uploaded file
\* reference is supplied.
RequestCarriesHistory ==
    [][turn'.request # turn.request =>
          /\ turn'.request.prompt = Last(messages'.v).content
          /\ turn'.request.history =
                _convert_to_gemini_format(AllButLast(messages'.v))]_vars

\* ------------------------------------------------------ stored metadata
\* C19: a session's created_at is set once: saving the same session id
\* again leaves the created_at stored for that session unchanged.
CreatedAtSetOnce ==
    [][\A k \in DOMAIN files \cap DOMAIN files' :
          (/\ files[k].parse /\ files'[k].parse
           /\ "created_at" \in DOMAIN files[k].data
           /\ "created_at" \in DOMAIN files'[k].data)
          => files'[k].data.created_at = files[k].data.created_at]_vars

\* ---------------------------------------------------- ChatMessage.to_dict
\* ChatMessage objects: constructed with a timestamp or without one
ChatMessages ==
    [role : {"user", "assistant"}, content : {"hi"},
     timestamp : {NoneTime, PyTime(1)}, plots : {<<>>}, image : {PyNone, Blob1}]

\* ChatMessage.to_dict() on object m at clock reading t:
\* self.timestamp or datetime.now().strftime(...)
message_to_dict(m, t) ==
    to_dict(m.role, m.content, m.plots, m.image,
            IF m.timestamp.t = "None" THEN t ELSE m.timestamp.v)

\* to_dict() called repeatedly on one message as time passes; arg is the
\* message, ret the records returned so far
InitToDict ==
    /\ now = 0
    /\ dirExists = FALSE
    /\ files = NoFiles
    /\ messages = Absent
    /\ session_id = AbsentId
    /\ raised = FALSE
    /\ lastOp = Op("start", "", TRUE)
    /\ issued = <<>>
    /\ arg \in ChatMessages
    /\ ret = PyList(<<>>)
    /\ turn = Idle
    /\ peer = NoPeer

ToDict ==
    /\ Len(ret.v) < MaxCalls
    /\ ret' = PyList(Append(ret.v, message_to_dict(arg, now)))
    /\ lastOp' = Op("to_dict", "", TRUE)
    /\ UNCHANGED <<peer, turn, now, dirExists, files, messages, session_id, raised,
                   issued, arg>>

NextToDict == Tick \/ ToDict

SpecToDict == InitToDict /\ [][NextToDict]_vars

\* C20: serializing the same ChatMessage repeatedly with to_dict() yields
\* the same timestamp in every returned record, also for a message
\* constructed without a timestamp and with the clock advancing between the
\* calls.
SameTimestamp ==
    \A i, j \in 1..Len(ret.v) : ret.v[i].timestamp = ret.v[j].timestamp

\* ------------------------------------------------ repeated initialize()
\* C21: initialize() called again while a session is active leaves the
\* active id and the in-memory sequence unchanged, and a second
\* PersistenceService.initialize() run at once after the first leaves the
\* session files as the first left them.
InitializeIdempotent ==
    [][Initialize(FALSE, "none", {}, "none") =>
          /\ (messages # Absent /\ session_id # AbsentId) =>
                (messages' = messages /\ session_id' = session_id)
          /\ dirExists'
          /\ _cleanup_old_sessions(files', dirExists', now', "none") = {files'}]_vars

\* initialize() has run on an active session that has messages and a file,
\* beside another session's file
InitializedAgain ==
    /\ lastOp = Op("initialize", "", TRUE)
    /\ messages # Absent /\ messages.v # <<>>
    /\ session_id \in DOMAIN files
    /\ DOMAIN files # {session_id}

\* -------------------------------------------------- reads change nothing
\* C22: get_messages, get_message_count and get_last_n_messages change
\* nothing: the in-memory sequence, the active id and every session file
\* are the same after the call as before, no exception leaves them, and
\* get_message_count is the length of get_messages.
ReadsChangeNothing ==
    [][(GetMessages \/ GetMessageCount \/ \E n \in 0..(MaxMsgs + 1) : GetLastN(n)) =>
          /\ messages' = messages
          /\ session_id' = session_id
          /\ files' = files /\ dirExists' = dirExists
          /\ ~raised'
          /\ GetMessages => ret'.v = (IF messages = Absent THEN <<>> ELSE messages.v)
          /\ GetMessageCount =>
                ret'.v = Len(IF messages = Absent THEN <<>> ELSE messages.v)]_vars

\* get_message_count has returned the length of a stored history
CountedMessages ==
    /\ lastOp.op = "get_message_count"
    /\ messages # Absent /\ messages.v # <<>>
    /\ ret = [t |-> "int", v |-> Len(messages.v)]
    /\ session_id \in DOMAIN files

\* ---------------------------------------------------- no empty session
\* the files that a step wrote: new in the store, or changed
Written == {k \in DOMAIN files' : k \notin DOMAIN files \/ files'[k] # files[k]}

Roles(ms) == {ms[i].role : i \in 1..Len(ms)}
\* the roles of the records stored in the parseable files of fs
StoredRoles(fs) ==
    UNION {Roles(fs[k].data.messages) : k \in {f \in DOMAIN fs : fs[f].parse}}

\* C24: every message the chat flow puts into history has role user or
\* assistant; model appears only in the upstream request, where the
\* conversion maps user to user and every other stored role to model, and
\* never in the in-memory sequence or in a session file.
RolesKept ==
    /\ Roles(get_messages(messages)) \subseteq {"user", "assistant"}
    /\ StoredRoles(files) \subseteq {"user", "assistant"}
    /\ Roles(turn.request.history) \subseteq {"user", "model"}
    /\ turn.pc = "streaming" =>
          /\ Len(turn.request.history) = Len(messages.v) - 1
          /\ \A i \in 1..Len(turn.request.history) :
                turn.request.history[i].role =
                    (IF messages.v[i].role = "user" THEN "user" ELSE "model")

\* an upstream request has carried an assistant turn as model while the
\* history and the store hold it as assistant
SentAsModel ==
    /\ "model" \in Roles(turn.request.history)
    /\ "assistant" \in Roles(get_messages(messages))
    /\ "assistant" \in StoredRoles(files)
    /\ "model" \notin Roles(get_messages(messages))

\* ------------------------------------------------- two browser sessions
\* Two browser sessions run the application on one sessions directory.
\* messages and session_id are the st.session_state of the session whose
\* script runs next, peer is the st.session_state of the other; Switch
\* hands the turn to the other session.  A script runs to its end before
\* the other starts, as each call of the History Manager does.
Switch ==
    /\ peer' = [messages |-> messages, session_id |-> session_id]
    /\ messages' = peer.messages
    /\ session_id' = peer.session_id
    /\ lastOp' = Op("switch", "", TRUE)
    /\ UNCHANGED <<now, dirExists, files, raised, issued, arg, ret, turn>>

InitTwo ==
    /\ now = MAX_SESSION_AGE_DAYS + 1
    /\ dirExists = TRUE
    /\ files \in {OldSession, TwoSessions}
    /\ messages = Absent
    /\ session_id = AbsentId
    /\ raised = FALSE
    /\ lastOp = Op("start", "", TRUE)
    /\ issued = <<>>
    /\ arg = PyNone
    /\ ret = PyNone
    /\ turn = Idle
    /\ peer = NoPeer

NextTwo ==
    \/ Tick
    \/ Switch
    \/ Initialize(FALSE, "none", {}, "none")
    \/ \E in \in AddInputs, fault \in {"none", "write"} : AddMessage(in, fault)

SpecTwo == InitTwo /\ [][NextTwo]_vars

\* C25: last write wins.  When two History Managers have resumed the same
\* session id, after each save that save_session completes the stored
\* record is the full in-memory sequence of the manager that saved, which is
\* its previous sequence with the new message appended, whatever the other
\* manager saved before; the other manager's memory is not refreshed.
LastWriteWins ==
    [][\A in \in AddInputs, fault \in {"none", "write"} :
          (/\ AddMessage(in, fault)
           /\ peer.session_id = session_id
           /\ lastOp'.ok) =>
              /\ messages' = PyList(Append(messages.v,
                                 to_dict(in[1], in[2], in[3], in[4], now)))
              /\ load_session(files', dirExists, session_id, "none") = messages'
              /\ peer' = peer]_vars

\* both managers hold the same session id, the one that saved last is in
\* the store and the message the other appended and saved is not
OverwrotePeer ==
    /\ lastOp = Op("add_message", "save", TRUE)
    /\ peer.session_id = session_id
    /\ load_session(files, dirExists, session_id, "none") = messages
    /\ Len(peer.messages.v) = Len(messages.v)
    /\ peer.messages # messages

\* ------------------------------------------------------------ failed save
\* C26: a save_session call that returns False leaves the store as it was
\* for that id: the record saved before is still there and loads to the
\* sequence saved before.
FailedSaveKeepsRecord ==
    [][(RTSave /\ ~lastOp'.ok /\ arg.id \in DOMAIN files) =>
          /\ files'[arg.id] = files[arg.id]
          /\ load_session(files', dirExists, arg.id, "none")
                 = load_session(files, dirExists, arg.id, "none")]_vars

\* ------------------------------------------- cleanup before resumption
\* C27: the retention cleanup runs before resumption in initialize().  When
\* the cleanup meets no fault, a session whose file is older than the 7-day
\* window is never adopted as the active session, and if every stored
\* session is stale initialize() starts a fresh empty session.
CleansBeforeResuming ==
    [][(messages = Absent /\ Initialize(FALSE, "none", {}, "none")) =>
          /\ \A k \in DOMAIN files :
                Age(files, k, now) > MAX_SESSION_AGE_DAYS =>
                    /\ ~(lastOp'.log = "restored" /\ session_id' = k)
                    /\ messages' = PyList(<<>>)
                         \/ messages' # load_session(files, dirExists, k, "none")
          /\ (\A k \in DOMAIN files : Age(files, k, now) > MAX_SESSION_AGE_DAYS) =>
                /\ messages' = PyList(<<>>)
                /\ session_id' = generate_session_id(now)
                /\ session_id' \notin DOMAIN files']_vars

\* initialize() has started a fresh empty session on a store whose session
\* files have all been removed by the cleanup: the stores of SpecTwo start
\* with a session file and none of its actions deletes one otherwise
AllStaleStartsFresh ==
    /\ lastOp = Op("initialize", "no sessions, new", TRUE)
    /\ files = NoFiles
    /\ messages = PyList(<<>>)
    /\ session_id = generate_session_id(now)

\* ------------------------------------------------- append-only in memory
\* C28: the in-memory sequence is append-only between clears.  add_message
\* increases its length by exactly one, places the new message last and
\* leaves every earlier message and the active session id unchanged, whether
\* its save succeeds or not; only clear() ever shortens the sequence.
AppendOnly ==
    [][/\ \A in \in AddInputs, fault \in {"none", "open", "write"} :
             AddMessage(in, fault) =>
                 /\ Len(messages'.v) = Len(messages.v) + 1
                 /\ messages'.v[Len(messages'.v)]
                        = to_dict(in[1], in[2], in[3], in[4], now)
                 /\ \A i \in 1..Len(messages.v) : messages'.v[i] = messages.v[i]
                 /\ session_id' = session_id
       /\ (/\ messages # Absent
           /\ messages' # Absent
           /\ Len(messages'.v) < Len(messages.v)) => lastOp'.op = "clear"]_vars

\* add_message has appended to a resumed session: the resumed message is
\* still first and the new one, which differs from it, is last
AppendedAfterResumed ==
    /\ lastOp.op = "add_message"
    /\ messages # Absent
    /\ Len(messages.v) = 2
    /\ messages.v[1] = OldMsg
    /\ messages.v[2] # OldMsg

\* ------------------------------------------- files of the other sessions
\* a working store but for os.remove, which can raise in delete_session
NextClear ==
    \/ Tick
    \/ NewSessionState
    \/ Initialize(FALSE, "none", {}, "none")
    \/ \E in \in AddInputs : AddMessage(in, "none")
    \/ \E fault \in {"none", "remove"} : Clear(fault)

\* the run covers the last two clock readings: each delete that fails leaves
\* a session file behind, and two readings keep those files few
InitClear ==
    /\ now = MaxClock - 1
    /\ dirExists = TRUE
    /\ files \in {OldEmpty, OldSession}
    /\ messages = Absent
    /\ session_id = AbsentId
    /\ raised = FALSE
    /\ lastOp = Op("start", "", TRUE)
    /\ issued = <<>>
    /\ arg = PyNone
    /\ ret = PyNone
    /\ turn = Idle
    /\ peer = NoPeer

SpecClear == InitClear /\ [][NextClear]_vars

\* C29: clear() removes at most the file of the session id that was active
\* when it was called, every session file stored under another id is
\* unchanged by it, and the operations of the History Manager only ever
\* write the file named by the active id.
TouchesActiveOnly ==
    [][/\ \A fault \in {"none", "remove"} :
             Clear(fault) =>
                 /\ Others(files', session_id) = Others(files, session_id)
                 /\ session_id \in DOMAIN files' =>
                        /\ session_id \in DOMAIN files
                        /\ files'[session_id] = files[session_id]
       /\ Written \subseteq {session_id}]_vars

\* clear() has removed the file of the session that was active and the
\* store still holds the session file of another id
ClearedBesideAnother ==
    /\ lastOp = Op("clear", "", TRUE)
    /\ \E k \in DOMAIN files : k # session_id /\ files[k].parse

\* ---------------------------------------------------------- the chat flow
\* the application's chat flow on a store with no earlier session: every
\* history starts empty and only submissions append to it
InitFlow ==
    /\ now = MAX_SESSION_AGE_DAYS + 1
    /\ dirExists \in BOOLEAN
    /\ files = NoFiles
    /\ messages = Absent
    /\ session_id = AbsentId
    /\ raised = FALSE
    /\ lastOp = Op("start", "", TRUE)
    /\ issued = <<>>
    /\ arg = PyNone
    /\ ret = PyNone
    /\ turn = Idle
    /\ peer = NoPeer

NextFlow ==
    \/ Tick
    \/ turn.pc = "idle" /\ Initialize(FALSE, "none", {}, "none")
    \/ turn.pc = "idle" /\ Clear("none")
    \/ \E prompt \in Prompts : Submit(prompt)
    \/ \E f \in Frags : Fragment(f)
    \/ \E fault \in {"none", "write"} : StreamEnd(fault)
    \/ \E e \in Errors, fault \in {"none", "write"} : StreamRaise(e, fault)

SpecFlow == InitFlow /\ [][NextFlow]_vars

\* the roles of ms alternate, the first being the user's
Alternates(ms) ==
    \A i \in 1..Len(ms) : ms[i].role = IF i % 2 = 1 THEN "user" ELSE "assistant"

\* C30: the user message is appended before the upstream call.  While the
\* response stream is open the last element of the history is the user
\* message holding the current prompt and the history given upstream is
\* exactly the prior turns; after each completed submission, whether the
\* upstream call succeeded or raised, a history that started empty consists
\* of strictly alternating user and assistant messages.
PromptLastThenAlternates ==
    /\ turn.pc = "streaming" =>
          /\ messages.v # <<>>
          /\ Last(messages.v).role = "user"
          /\ Last(messages.v).content = turn.prompt
          /\ turn.request.prompt = turn.prompt
          /\ turn.request.history
                 = _convert_to_gemini_format(AllButLast(messages.v))
          /\ Len(turn.request.history) = Len(messages.v) - 1
          /\ Alternates(messages.v)
          /\ Len(messages.v) % 2 = 1
    /\ (turn.pc = "idle" /\ messages # Absent) =>
          /\ Alternates(messages.v)
          /\ Len(messages.v) % 2 = 0

\* two submissions have completed, the first with an upstream error: the
\* second request carried the first turn and the history alternates
TwoTurnsCompleted ==
    /\ turn.pc = "idle"
    /\ Len(turn.request.history) = 2
    /\ messages # Absent
    /\ Len(messages.v) = 4
    /\ messages.v[2].content = API_ERROR_TEMPLATE(upstream_error("quota"))
    /\ messages.v[4].role = "assistant"

====
